---------------------------- MODULE Spec2Model ----------------------------
(***************************************************************************)
(* Model of notebooks/src_vicon_utils.py: read_vicon_csv (header           *)
(* reconstruction, table load, all-missing column drop), find_xyz_cols     *)
(* (regex marker resolver) and motion_quantity_point (path length).        *)
(*                                                                         *)
(* A string is a sequence of symbols.  In the resolver a symbol is one     *)
(* character; in header cells a symbol is either one whitespace character  *)
(* or a whitespace-free word ("Frame", "Sub", a marker name).              *)
(***************************************************************************)
EXTENDS Integers, Sequences, FiniteSets, TLC

VARIABLES
    pc,          \* position of the running call
    token,       \* find_xyz_cols: marker token
    columns,     \* find_xyz_cols: the column labels, in iteration order
    idx,         \* find_xyz_cols: number of columns already visited
    found,       \* find_xyz_cols: dict axis -> label (a function on its keys)
    result,      \* find_xyz_cols: returned triple, each slot <<>> (None) or <<label>>
    file,        \* read_vicon_csv: the record file (line count, rows 3 and 4, data rows)
    marker_row,  \* read_vicon_csv: header_lines[2], padded
    axis_row,    \* read_vicon_csv: header_lines[3], padded
    filled,      \* read_vicon_csv: forward-filled marker names
    last,        \* read_vicon_csv: last non-blank marker name seen
    colnames,    \* read_vicon_csv: flat column labels
    df,          \* the DataFrame: <<>> (none) or <<[cols, rows]>>
    error,       \* the exception that ended the call, "" when none
    xyz,         \* motion_quantity_point: the column labels X, Y, Z
    arr,         \* motion_quantity_point: df[[X, Y, Z]] as float rows
    d,           \* motion_quantity_point: np.diff(arr, axis=0)
    step,        \* motion_quantity_point: the step lengths
    qdm_mm,      \* motion_quantity_point: returned path length
    n_steps      \* motion_quantity_point: returned step count

resolverVars == <<token, columns, idx, found, result>>

readerVars == <<file, marker_row, axis_row, filled, last, colnames>>

mqpVars == <<xyz, arr, d, step, qdm_mm, n_steps>>

vars == <<pc, resolverVars, readerVars, df, error, mqpVars>>

---------------------------------------------------------------------------
(* Characters *)

\* Characters matched by \s; only " " is removed by str.replace(" ", "")
Whitespace == {" ", "\t"}

\* Characters matched by \w (the ones the model's labels use)
WordChars == {"a", "e", "f", "m", "o", "p", "q", "r", "w", "W",
              "x", "y", "z", "X", "Y", "Z", "_", "1"}

\* re.IGNORECASE compares case-folded characters
Lower(ch) ==
    CASE ch = "W" -> "w"
      [] ch = "X" -> "x"
      [] ch = "Y" -> "y"
      [] ch = "Z" -> "z"
      [] OTHER -> ch

\* m.group(1).upper() of a character matched by [XYZ] under IGNORECASE
Upper(ch) ==
    CASE ch = "x" -> "X"
      [] ch = "y" -> "Y"
      [] ch = "z" -> "Z"
      [] OTHER -> ch

Axes == {"X", "Y", "Z"}

\* Python None / a present value, as a sequence of length 0 / 1
None == <<>>

Some(v) == <<v>>

---------------------------------------------------------------------------
(* find_xyz_cols *)

\* str(c).replace(" ", ""): every U+0020 removed, other whitespace kept
RemoveSpaces(s) == SelectSeq(s, LAMBDA ch : ch # " ")

\* number of consecutive \s characters of s from index p on
RECURSIVE WsRun(_, _)
WsRun(s, p) ==
    IF p <= Len(s) /\ s[p] \in Whitespace THEN 1 + WsRun(s, p + 1) ELSE 0

\* re.escape(token) matched literally, case-insensitively, at index p
TokenAt(s, p, tok) ==
    /\ p + Len(tok) - 1 <= Len(s)
    /\ \A i \in 1..Len(tok) : Lower(s[p + i - 1]) = Lower(tok[i])

\* mutation of BodyAt: the pattern without its trailing \b
BodyAtNoBoundary(s, p, tok) ==
    LET u == p + Len(tok)
        a == u + 1
    IN  IF /\ TokenAt(s, p, tok)
           /\ a <= Len(s)
           /\ s[u] = "_"
           /\ Upper(s[a]) \in Axes
        THEN Upper(s[a])
        ELSE ""

\* token_([XYZ])\b at index p: the axis letter matched, or "" when no match
BodyAt(s, p, tok) ==
    LET u == p + Len(tok)       \* index of "_"
        a == u + 1              \* index of the axis letter
    IN  IF /\ TokenAt(s, p, tok)
           /\ a <= Len(s)
           /\ s[u] = "_"
           /\ Upper(s[a]) \in Axes
           /\ (a = Len(s) \/ s[a + 1] \notin WordChars)
        THEN Upper(s[a])
        ELSE ""

\* \s*token_([XYZ])\b at index p: \s* is greedy and backtracks, so the
\* longest whitespace run that lets the rest match is the one taken
RECURSIVE TailAt(_, _, _, _)
TailAt(s, p, tok, k) ==
    IF BodyAt(s, p + k, tok) # "" THEN BodyAt(s, p + k, tok)
    ELSE IF k = 0 THEN ""
    ELSE TailAt(s, p, tok, k - 1)

\* the pattern tried with its anchor at offset q: q = 0 is "^" (then ":" at
\* the first character is offset 1, as the alternation tries "^" first)
AnchorAt(s, q, tok) ==
    IF q = 0 THEN TailAt(s, 1, tok, WsRun(s, 1))
    ELSE IF s[q] = ":" THEN TailAt(s, q + 1, tok, WsRun(s, q + 1))
    ELSE ""

\* pat.search(c_str): leftmost match; the axis (upper-cased group 1) or ""
RECURSIVE SearchFrom(_, _, _)
SearchFrom(s, q, tok) ==
    IF q > Len(s) THEN ""
    ELSE IF AnchorAt(s, q, tok) # "" THEN AnchorAt(s, q, tok)
    ELSE SearchFrom(s, q + 1, tok)

PatSearch(s, tok) == SearchFrom(s, 0, tok)

\* found.get(axis)
Get(dict, k) == IF k \in DOMAIN dict THEN Some(dict[k]) ELSE None

\* the test guarding found[axis] = c: the stripped length of the candidate
\* against the length of the stored (unstripped) label
Replaces(dict, axis, c) ==
    axis \notin DOMAIN dict \/ Len(RemoveSpaces(c)) < Len(dict[axis])

\* mutation of Store: found[axis] = c_str
StoreStripped(dict, axis, c) ==
    [k \in DOMAIN dict \cup {axis} |-> IF k = axis THEN RemoveSpaces(c) ELSE dict[k]]

\* found[axis] = c
Store(dict, axis, c) == [k \in DOMAIN dict \cup {axis} |-> IF k = axis THEN c ELSE dict[k]]

\* one iteration of "for c in columns"
LoopBody(dict, c, tok) ==
    LET axis == PatSearch(RemoveSpaces(c), tok)
    IN  IF axis # "" /\ Replaces(dict, axis, c) THEN Store(dict, axis, c) ELSE dict

---------------------------------------------------------------------------
(* read_vicon_csv: header reconstruction *)

\* a record file: its number of lines, the cells of lines 3 and 4 as
\* csv.reader yields them, and the cells of the lines after the fifth
NoFile == [lines |-> 0, markers |-> <<>>, axes |-> <<>>, data |-> <<>>]

\* header_lines = [next(reader) for _ in range(5)]
HeaderLines == 5

\* mutation of ShortFile: range(4)
ShortFileOffByOne(n) == n < HeaderLines - 1

\* next(reader) raises StopIteration before five rows were read
ShortFile(n) == n < HeaderLines

RECURSIVE LStrip(_)
LStrip(s) ==
    IF s # <<>> /\ Head(s) \in Whitespace THEN LStrip(Tail(s)) ELSE s

RECURSIVE RStrip(_)
RStrip(s) ==
    IF s # <<>> /\ s[Len(s)] \in Whitespace THEN RStrip(SubSeq(s, 1, Len(s) - 1)) ELSE s

\* (m or "").strip()
Strip(s) == RStrip(LStrip(s))

Max(a, b) == IF a >= b THEN a ELSE b

\* row += [""] * (n - len(row))
PadTo(row, n) == row \o [i \in 1..(n - Len(row)) |-> <<>>]

\* mutation of FillCell: a blank cell stays blank
FillCellNoCarry(m, prev) == Strip(m)

\* the value appended to filled for marker cell m, given last
FillCell(m, prev) == IF Strip(m) = <<>> THEN prev ELSE Strip(m)

\* mutation of Label: the fallback case prefers the axis token
LabelAxisFallback(m, a) ==
    LET ms == Strip(m)
        as == Strip(a)
    IN  IF as \in { <<"Frame">>, <<"Sub", " ", "Frame">> } THEN as
        ELSE IF as \in { <<"X">>, <<"Y">>, <<"Z">> } THEN ms \o <<"_">> \o as
        ELSE IF as # <<>> THEN as
        ELSE ms

\* the label built from a filled marker m and an axis cell a
Label(m, a) ==
    LET ms == Strip(m)
        as == Strip(a)
    IN  IF as \in { <<"Frame">>, <<"Sub", " ", "Frame">> } THEN as
        ELSE IF as \in { <<"X">>, <<"Y">>, <<"Z">> } THEN ms \o <<"_">> \o as
        ELSE IF ms # <<>> THEN ms
        ELSE as

---------------------------------------------------------------------------
(* Float values and DataFrames *)

\* a cell value: a finite number, NaN (missing), +/-inf, or a str object
Num(v) == [k |-> "num", v |-> v]

NaN == [k |-> "nan", v |-> 0]

Inf(sgn) == [k |-> "inf", v |-> sgn]

Text == [k |-> "str", v |-> 0]

\* np.isfinite
IsFinite(a) == a.k = "num"

\* a - b in IEEE arithmetic
FSub(a, b) ==
    IF a.k = "nan" \/ b.k = "nan" THEN NaN
    ELSE IF a.k = "inf" /\ b.k = "inf" THEN (IF a.v = b.v THEN NaN ELSE a)
    ELSE IF a.k = "inf" THEN a
    ELSE IF b.k = "inf" THEN Inf(0 - b.v)
    ELSE Num(a.v - b.v)

\* a + b in IEEE arithmetic
FAdd(a, b) ==
    IF a.k = "nan" \/ b.k = "nan" THEN NaN
    ELSE IF a.k = "inf" /\ b.k = "inf" THEN (IF a.v = b.v THEN a ELSE NaN)
    ELSE IF a.k = "inf" THEN a
    ELSE IF b.k = "inf" THEN b
    ELSE Num(a.v + b.v)

\* a ** 2
FSquare(a) ==
    IF a.k = "nan" THEN NaN
    ELSE IF a.k = "inf" THEN Inf(1)
    ELSE Num(a.v * a.v)

\* integer square root; the model's coordinates make every finite squared
\* step length a perfect square, so the root is exact
ISqrt(q) == CHOOSE r \in 0..q : r * r <= q /\ (r + 1) * (r + 1) > q

\* np.sqrt of a non-negative value
FSqrt(a) == IF a.k = "num" THEN Num(ISqrt(a.v)) ELSE a

\* the elements of seq at the indices in keep, in order
Project(seq, keep) ==
    LET F[i \in 0..Len(seq)] ==
            IF i = 0 THEN <<>>
            ELSE IF i \in keep THEN Append(F[i - 1], seq[i])
            ELSE F[i - 1]
    IN  F[Len(seq)]

---------------------------------------------------------------------------
(* read_vicon_csv: pd.read_csv and dropna *)

\* the numerals of the model's data cells
Numerals == { <<"0">>, <<"1">> }

NumeralValue(c) == IF c = <<"0">> THEN 0 ELSE 1

\* pandas' default NA markers, of which the model's cells use the empty one
IsNA(c) == c = <<>>

\* a column parses as float when each of its cells is NA or a number
NumericColumn(data, c) ==
    \A r \in 1..Len(data) : IsNA(data[r][c]) \/ data[r][c] \in Numerals

\* the value read_csv stores for the cell at row r, column c: NA cells become
\* NaN; the other cells become floats in a numeric column and stay str objects
\* in a column that holds a cell that is not a number
CellValue(data, r, c) ==
    IF IsNA(data[r][c]) THEN NaN
    ELSE IF NumericColumn(data, c) THEN Num(NumeralValue(data[r][c]))
    ELSE Text

\* names with a repeated entry are refused ("Duplicate names are not allowed.")
DuplicateNames(names) ==
    \E i, j \in 1..Len(names) : i # j /\ names[i] = names[j]

\* pd.read_csv(csv_path, skiprows=5, header=None, names=colnames)
ReadCsv(names, data) ==
    [cols |-> names,
     rows |-> [r \in 1..Len(data) |-> [c \in 1..Len(names) |-> CellValue(data, r, c)]]]

\* a column dropna(axis=1, how="all") removes: every row NaN
AllMissing(t, c) == \A r \in 1..Len(t.rows) : t.rows[r][c] = NaN

\* mutation of DropNa: how="any"
DropNaAny(t) ==
    LET keep == { c \in 1..Len(t.cols) : \A r \in 1..Len(t.rows) : t.rows[r][c] # NaN }
    IN  [cols |-> Project(t.cols, keep),
         rows |-> [r \in 1..Len(t.rows) |-> Project(t.rows[r], keep)]]

\* df.dropna(axis=1, how="all")
DropNa(t) ==
    LET keep == { c \in 1..Len(t.cols) : ~AllMissing(t, c) }
    IN  [cols |-> Project(t.cols, keep),
         rows |-> [r \in 1..Len(t.rows) |-> Project(t.rows[r], keep)]]

---------------------------------------------------------------------------
(* motion_quantity_point *)

\* index of the column labelled name
ColumnOf(t, name) == CHOOSE c \in 1..Len(t.cols) : t.cols[c] = name

\* df[[X, Y, Z]].to_numpy(dtype=float) raises ValueError on a str object
ToNumpyRaises(t, sel) ==
    \E r \in 1..Len(t.rows) : \E i \in 1..3 : t.rows[r][ColumnOf(t, sel[i])] = Text

\* df[[X, Y, Z]].to_numpy(dtype=float)
ToNumpy(t, sel) ==
    [r \in 1..Len(t.rows) |-> [i \in 1..3 |-> t.rows[r][ColumnOf(t, sel[i])]]]

\* np.diff(arr, axis=0)
Diff(a) ==
    [r \in 1..(IF Len(a) = 0 THEN 0 ELSE Len(a) - 1) |->
        [i \in 1..3 |-> FSub(a[r + 1][i], a[r][i])]]

\* |a|
FAbs(a) == IF a.k = "num" /\ a.v < 0 THEN Num(0 - a.v) ELSE IF a.k = "inf" THEN Inf(1) ELSE a

\* mutation of Norm: np.abs(d).sum(axis=1)
NormManhattan(row) == FAdd(FAdd(FAbs(row[1]), FAbs(row[2])), FAbs(row[3]))

\* np.sqrt((d ** 2).sum(axis=1)) for one row of d
Norm(row) == FSqrt(FAdd(FAdd(FSquare(row[1]), FSquare(row[2])), FSquare(row[3])))

\* mutation of KeepFinite: step[~np.isnan(step)]
KeepNotNaN(st) == SelectSeq(st, LAMBDA a : a # NaN)

\* step[np.isfinite(step)]
KeepFinite(st) == SelectSeq(st, IsFinite)

\* step.sum()
RECURSIVE FSum(_)
FSum(st) == IF st = <<>> THEN Num(0) ELSE FAdd(st[1], FSum(Tail(st)))

MqpIdle ==
    /\ xyz = <<>>
    /\ arr = <<>>
    /\ d = <<>>
    /\ step = <<>>
    /\ qdm_mm = None
    /\ n_steps = None

ReaderIdle ==
    /\ file = NoFile
    /\ marker_row = <<>>
    /\ axis_row = <<>>
    /\ filled = <<>>
    /\ last = <<>>
    /\ colnames = <<>>

ResolverIdle ==
    /\ token = <<>>
    /\ columns = <<>>
    /\ idx = 0
    /\ found = <<>>
    /\ result = [X |-> None, Y |-> None, Z |-> None]

---------------------------------------------------------------------------
(* Inputs of find_xyz_cols *)

MaxCols == 2

Tokens == { <<"w">>, <<"a", "r", "m">> }

Labels ==
    { <<"w", "_", "X">>,
      <<"w", "_", "Y">>,
      <<"w", "_", "Z">>,
      <<"p", ":", "w", "_", "X">>,
      <<"p", ":", "w", "_", "Y">>,
      <<"p", "q", ":", "w", "_", "X">>,
      <<"p", "q", ":", "w", "_", "Z">>,
      <<"p", " ", ":", "w", "_", "Y">>,
      <<"p", " ", ":", " ", "w", "_", "X">>,
      <<"p", " ", "q", ":", " ", "w", "_", "Z">>,
      <<"w", " ", "_", " ", "X">>,
      <<"W", "_", "x">>,
      <<"p", ":", "W", "_", "y">>,
      <<"w", "_", "X", "a">>,
      <<"w", "_", "Y", ".", "1">>,
      <<"p", "w", "_", "X">>,
      <<"p", " ", "w", "_", "Z">>,
      <<":", " ", "w", "_", "Z">>,
      <<"w", "\t", "_", "X">>,
      <<"p", ":", "\t", "w", "_", "X">>,
      <<"\t", "w", "_", "Y">>,
      <<"w", "_", "X", "\t", "a">>,
      <<"w", "_", "Y", ":", "w", "_", "X">>,
      <<"w", "_", "X", ":", "w", "_", "Z">>,
      <<"f", "o", "r", "e", "a", "r", "m", "_", "X">>,
      <<"a", "r", "m", "_", "Y">>,
      <<"p", "1", ":", "a", "r", "m", "_", "Z">>,
      <<"p">> }

ColumnLists == UNION { [1..n -> Labels] : n \in 0..MaxCols }

---------------------------------------------------------------------------
(* find_xyz_cols as a state machine: one step per loop iteration *)

ResolverInit ==
    /\ pc = "loop"
    /\ token \in Tokens
    /\ columns \in ColumnLists
    /\ idx = 0
    /\ found = <<>>
    /\ result = [X |-> None, Y |-> None, Z |-> None]
    /\ ReaderIdle
    /\ df = None
    /\ error = ""
    /\ MqpIdle

\* for c in columns: ...
ResolveStep ==
    /\ pc = "loop"
    /\ idx < Len(columns)
    /\ found' = LoopBody(found, columns[idx + 1], token)
    /\ idx' = idx + 1
    /\ UNCHANGED <<pc, token, columns, result, readerVars, df, error, mqpVars>>

\* return found.get("X"), found.get("Y"), found.get("Z")
ResolveReturn ==
    /\ pc = "loop"
    /\ idx = Len(columns)
    /\ result' = [X |-> Get(found, "X"), Y |-> Get(found, "Y"), Z |-> Get(found, "Z")]
    /\ pc' = "done"
    /\ UNCHANGED <<token, columns, idx, found, readerVars, df, error, mqpVars>>

ResolverNext == ResolveStep \/ ResolveReturn

SpecResolver == ResolverInit /\ [][ResolverNext]_vars

---------------------------------------------------------------------------
(* read_vicon_csv as a state machine *)

\* header_lines = [next(reader) for _ in range(5)] on a file of five lines
\* or more; marker_row = header_lines[2]; axis_row = header_lines[3]
ReadHeader ==
    /\ pc = "open"
    /\ ~ShortFile(file.lines)
    /\ marker_row' = file.markers
    /\ axis_row' = file.axes
    /\ pc' = "pad"
    /\ UNCHANGED <<file, filled, last, colnames, df, error, resolverVars, mqpVars>>

\* next(reader) on an exhausted reader: the call ends with StopIteration
ReadHeaderShort ==
    /\ pc = "open"
    /\ ShortFile(file.lines)
    /\ error' = "StopIteration"
    /\ pc' = "raised"
    /\ UNCHANGED <<readerVars, df, resolverVars, mqpVars>>

\* n = max(len(marker_row), len(axis_row)); both rows padded to n
PadRows ==
    /\ pc = "pad"
    /\ LET n == Max(Len(marker_row), Len(axis_row))
       IN  /\ marker_row' = PadTo(marker_row, n)
           /\ axis_row' = PadTo(axis_row, n)
    /\ pc' = "fill"
    /\ UNCHANGED <<file, filled, last, colnames, df, error, resolverVars, mqpVars>>

\* one iteration of "for m in marker_row"
FillStep ==
    /\ pc = "fill"
    /\ Len(filled) < Len(marker_row)
    /\ LET m == marker_row[Len(filled) + 1]
       IN  /\ last' = FillCell(m, last)
           /\ filled' = Append(filled, FillCell(m, last))
    /\ UNCHANGED <<pc, file, marker_row, axis_row, colnames, df, error, resolverVars, mqpVars>>

\* the forward-fill loop ends
FillEnd ==
    /\ pc = "fill"
    /\ Len(filled) = Len(marker_row)
    /\ pc' = "zip"
    /\ UNCHANGED <<readerVars, df, error, resolverVars, mqpVars>>

\* one iteration of "for m, a in zip(filled, axis_row)"
ZipStep ==
    /\ pc = "zip"
    /\ Len(colnames) < Len(filled)
    /\ LET i == Len(colnames) + 1
       IN  colnames' = Append(colnames, Label(filled[i], axis_row[i]))
    /\ UNCHANGED <<pc, file, marker_row, axis_row, filled, last, df, error, resolverVars, mqpVars>>

\* the label loop ends
ZipEnd ==
    /\ pc = "zip"
    /\ Len(colnames) = Len(filled)
    /\ pc' = "read_csv"
    /\ UNCHANGED <<readerVars, df, error, resolverVars, mqpVars>>

\* df = pd.read_csv(..., names=colnames, ...)
ReadCsvOk ==
    /\ pc = "read_csv"
    /\ ~DuplicateNames(colnames)
    /\ df' = Some(ReadCsv(colnames, file.data))
    /\ pc' = "dropna"
    /\ UNCHANGED <<readerVars, error, resolverVars, mqpVars>>

\* pd.read_csv refuses duplicate names: the call ends with ValueError
ReadCsvDuplicate ==
    /\ pc = "read_csv"
    /\ DuplicateNames(colnames)
    /\ error' = "ValueError"
    /\ pc' = "raised"
    /\ UNCHANGED <<readerVars, df, resolverVars, mqpVars>>

\* df = df.dropna(axis=1, how="all"); return df
DropNaReturn ==
    /\ pc = "dropna"
    /\ df' = Some(DropNa(df[1]))
    /\ pc' = "returned"
    /\ UNCHANGED <<readerVars, error, resolverVars, mqpVars>>

HeaderNext ==
    \/ ReadHeader
    \/ PadRows
    \/ FillStep
    \/ FillEnd
    \/ ZipStep
    \/ ZipEnd

---------------------------------------------------------------------------
(* motion_quantity_point as a state machine, on a table the caller holds *)

\* arr = df[[X, Y, Z]].to_numpy(dtype=float), for three columns of df
MqpCall ==
    /\ pc = "returned"
    /\ \E i, j, k \in 1..Len(df[1].cols) :
          /\ i < j /\ j < k
          /\ LET sel == <<df[1].cols[i], df[1].cols[j], df[1].cols[k]>>
             IN  /\ ~ToNumpyRaises(df[1], sel)
                 /\ xyz' = sel
                 /\ arr' = ToNumpy(df[1], sel)
    /\ pc' = "diff"
    /\ UNCHANGED <<d, step, qdm_mm, n_steps, df, error, resolverVars, readerVars>>

\* to_numpy(dtype=float) on a column holding a str: the call ends with ValueError
MqpRaise ==
    /\ pc = "returned"
    /\ \E i, j, k \in 1..Len(df[1].cols) :
          /\ i < j /\ j < k
          /\ LET sel == <<df[1].cols[i], df[1].cols[j], df[1].cols[k]>>
             IN  /\ ToNumpyRaises(df[1], sel)
                 /\ xyz' = sel
    /\ error' = "ValueError"
    /\ pc' = "mqp_raised"
    /\ UNCHANGED <<arr, d, step, qdm_mm, n_steps, df, resolverVars, readerVars>>

\* d = np.diff(arr, axis=0)
MqpDiff ==
    /\ pc = "diff"
    /\ d' = Diff(arr)
    /\ pc' = "norm"
    /\ UNCHANGED <<xyz, arr, step, qdm_mm, n_steps, df, error, resolverVars, readerVars>>

\* step = np.sqrt((d ** 2).sum(axis=1))
MqpNorm ==
    /\ pc = "norm"
    /\ step' = [r \in 1..Len(d) |-> Norm(d[r])]
    /\ pc' = "filter"
    /\ UNCHANGED <<xyz, arr, d, qdm_mm, n_steps, df, error, resolverVars, readerVars>>

\* step = step[np.isfinite(step)]
MqpFilter ==
    /\ pc = "filter"
    /\ step' = KeepFinite(step)
    /\ pc' = "sum"
    /\ UNCHANGED <<xyz, arr, d, qdm_mm, n_steps, df, error, resolverVars, readerVars>>

\* return float(step.sum()), int(step.size)
MqpReturn ==
    /\ pc = "sum"
    /\ qdm_mm' = Some(FSum(step))
    /\ n_steps' = Some(Len(step))
    /\ pc' = "mqp_done"
    /\ UNCHANGED <<xyz, arr, d, step, df, error, resolverVars, readerVars>>

MqpNext ==
    \/ MqpCall
    \/ MqpDiff
    \/ MqpNorm
    \/ MqpFilter
    \/ MqpReturn

---------------------------------------------------------------------------
(* Specification of the header reconstruction *)

MaxRowLen == 2

MarkerCells == { <<>>, <<" ">>, <<"M">>, <<" ", "N", " ">> }

AxisCells == { <<>>, <<"X">>, <<" ", "Y">>, <<"Frame">>, <<"Sub", " ", "Frame">>, <<"Q", " ">> }

RowsOf(cells) == UNION { [1..n -> cells] : n \in 0..MaxRowLen }

HeaderInit ==
    /\ pc = "open"
    /\ \E mr \in RowsOf(MarkerCells), ar \in RowsOf(AxisCells) :
          file = [lines |-> HeaderLines, markers |-> mr, axes |-> ar, data |-> <<>>]
    /\ marker_row = <<>>
    /\ axis_row = <<>>
    /\ filled = <<>>
    /\ last = <<>>
    /\ colnames = <<>>
    /\ df = None
    /\ error = ""
    /\ ResolverIdle
    /\ MqpIdle

SpecHeader == HeaderInit /\ [][HeaderNext]_vars

---------------------------------------------------------------------------
(* Specification of the whole load, followed by a use of the table *)

MaxDataRows == 2

DataCells == { <<>>, <<"1">>, <<"abc">> }

\* headers: a marker with its three axes; Frame and a marker; a ragged header
\* with a trailing cell; a header whose labels repeat
LoaderHeaders ==
    { [markers |-> << <<"M">>, <<>>, <<>> >>, axes |-> << <<"X">>, <<"Y">>, <<"Z">> >>],
      [markers |-> << <<>>, <<"M">> >>,       axes |-> << <<"Frame">>, <<"X">> >>],
      [markers |-> << <<"M">> >>,             axes |-> << <<"X">>, <<>> >>],
      [markers |-> << <<"M">>, <<>> >>,       axes |-> << <<>> >>] }

\* data rows with as many fields as the header has columns
DataOf(h, n) ==
    [1..n -> [1..Max(Len(h.markers), Len(h.axes)) -> DataCells]]

LoaderInit ==
    /\ pc = "open"
    /\ \/ \E k \in 0..(HeaderLines - 1) :
             file = [lines |-> k, markers |-> <<>>, axes |-> <<>>, data |-> <<>>]
       \/ \E h \in LoaderHeaders : \E n \in 0..MaxDataRows : \E rows \in DataOf(h, n) :
             file = [lines |-> HeaderLines + n, markers |-> h.markers,
                     axes |-> h.axes, data |-> rows]
    /\ marker_row = <<>>
    /\ axis_row = <<>>
    /\ filled = <<>>
    /\ last = <<>>
    /\ colnames = <<>>
    /\ df = None
    /\ error = ""
    /\ ResolverIdle
    /\ MqpIdle

LoaderNext ==
    \/ HeaderNext
    \/ ReadHeaderShort
    \/ ReadCsvOk
    \/ ReadCsvDuplicate
    \/ DropNaReturn
    \/ MqpNext
    \/ MqpRaise

SpecLoader == LoaderInit /\ [][LoaderNext]_vars

---------------------------------------------------------------------------
(* Specification of motion_quantity_point on numeric tables *)

MaxRows == 3

XValues == { Num(0), Num(3), NaN }

YValues == { Num(0), Num(4), Inf(1) }

ZValues == { Num(0), NaN }

PointRows == { <<x, y, z>> : x \in XValues, y \in YValues, z \in ZValues }

QdmInit ==
    /\ pc = "returned"
    /\ \E n \in 0..MaxRows : \E rows \in [1..n -> PointRows] :
          df = Some([cols |-> << <<"M", "_", "X">>, <<"M", "_", "Y">>, <<"M", "_", "Z">> >>,
                     rows |-> rows])
    /\ error = ""
    /\ ResolverIdle
    /\ ReaderIdle
    /\ MqpIdle

SpecQdm == QdmInit /\ [][MqpNext]_vars

---------------------------------------------------------------------------
(* Properties of find_xyz_cols *)

\* index set of the input columns
ColIdx == 1..Len(columns)

\* the stripped copy the loop matches against, written out per character
RECURSIVE NoSpaces(_)
NoSpaces(s) ==
    IF s = <<>> THEN <<>>
    ELSE IF Head(s) = " " THEN NoSpaces(Tail(s))
    ELSE <<Head(s)>> \o NoSpaces(Tail(s))

\* every whitespace character removed
RECURSIVE NoWhitespace(_)
NoWhitespace(s) ==
    IF s = <<>> THEN <<>>
    ELSE IF Head(s) \in Whitespace THEN NoWhitespace(Tail(s))
    ELSE <<Head(s)>> \o NoWhitespace(Tail(s))

\* t holds tok, "_", the letter of axis A (either case) from index p on,
\* followed by a word boundary
HasTokenAxisAt(t, p, tok, A) ==
    LET n == Len(tok)
    IN  /\ p + n + 1 <= Len(t)
        /\ \A i \in 1..n : Lower(t[p + i - 1]) = Lower(tok[i])
        /\ t[p + n] = "_"
        /\ Lower(t[p + n + 1]) = Lower(A)
        /\ (p + n + 1 = Len(t) \/ t[p + n + 2] \notin WordChars)

\* the pattern occurs in t anchored at offset q (0: start of the label,
\* q >= 1: the ":" at index q), whitespace allowed right after the anchor
OccursAt(t, q, tok, A) ==
    /\ q \in 0..Len(t)
    /\ (q = 0 \/ t[q] = ":")
    /\ \E k \in 0..(Len(t) - q) :
          /\ \A j \in 1..k : t[q + j] \in Whitespace
          /\ HasTokenAxisAt(t, q + k + 1, tok, A)

\* the leftmost occurrence of the pattern in the space-stripped label has axis A
MatchesAxis(c, tok, A) ==
    LET t == NoSpaces(c)
    IN  \E q \in 0..Len(t) :
           /\ OccursAt(t, q, tok, A)
           /\ \A r \in 0..(q - 1) : \A B \in Axes : ~OccursAt(t, r, tok, B)

\* the matching rule as the specification words it: all whitespace removed,
\* token_A at the start or right after a ":", then a word boundary
SpecMatchesAxis(c, tok, A) ==
    LET t == NoWhitespace(c)
    IN  \E p \in 1..Len(t) :
           /\ (p = 1 \/ t[p - 1] = ":")
           /\ HasTokenAxisAt(t, p, tok, A)

\* C1: at return, the label in each slot has minimal whitespace-stripped
\* length among all columns matching that axis.
C1_ShortestStripped ==
    pc = "done" =>
        \A A \in Axes : result[A] # None =>
            \A i \in ColIdx : MatchesAxis(columns[i], token, A) =>
                Len(NoSpaces(result[A][1])) <= Len(NoSpaces(columns[i]))

\* C2 (as stated): at return, slot A is non-absent iff some column, with all
\* whitespace removed, contains token_A at the start or right after ":" and
\* followed by a word boundary.
C2_SpecMatchingRule ==
    pc = "done" =>
        \A A \in Axes :
            (result[A] # None) <=> (\E i \in ColIdx : SpecMatchesAxis(columns[i], token, A))

\* C2 (amended): at return, slot A is non-absent iff for some column the
\* leftmost occurrence of the pattern (start or ":", optional whitespace,
\* token, "_", axis letter, word boundary) in the label with its space
\* characters removed carries axis A.
C2_MatchingRule ==
    pc = "done" =>
        \A A \in Axes :
            (result[A] # None) <=> (\E i \in ColIdx : MatchesAxis(columns[i], token, A))

\* C2 witness: for token "arm", forearm_X has resolved nothing while the
\* prefixed column p1:arm_Z has resolved axis Z.
C2_Witness ==
    /\ pc = "done"
    /\ token = <<"a", "r", "m">>
    /\ columns = << <<"f", "o", "r", "e", "a", "r", "m", "_", "X">>,
                    <<"p", "1", ":", "a", "r", "m", "_", "Z">> >>
    /\ result = [X |-> None, Y |-> None,
                 Z |-> Some(<<"p", "1", ":", "a", "r", "m", "_", "Z">>)]

\* C10: at return, each non-absent slot holds an input column in its
\* original form, one that matched the slot's own axis; and when exactly one
\* column matches an axis, that column is the one returned.
C10_ResultMembership ==
    pc = "done" =>
        \A A \in Axes :
            /\ result[A] # None =>
                  \E i \in ColIdx :
                      columns[i] = result[A][1] /\ MatchesAxis(columns[i], token, A)
            /\ \A i \in ColIdx :
                  (\A j \in ColIdx : MatchesAxis(columns[j], token, A) <=> j = i)
                      => result[A] = Some(columns[i])

\* C10 witness: a returned label with embedded spaces, the only column
\* matching its axis, returned unstripped.
C10_Witness ==
    /\ pc = "done"
    /\ \E A \in Axes :
          /\ result[A] # None
          /\ NoSpaces(result[A][1]) # result[A][1]
          /\ \E i \in ColIdx : \A j \in ColIdx : MatchesAxis(columns[j], token, A) <=> j = i
    /\ \E A \in Axes : result[A] = None

---------------------------------------------------------------------------
(* Properties of the header reconstruction *)

\* the cell of a header row at position i, blank beyond the row's end
CellAt(row, i) == IF i <= Len(row) THEN row[i] ELSE <<>>

\* a cell that is empty or holds whitespace only
IsBlank(c) == \A k \in 1..Len(c) : c[k] \in Whitespace

\* number of columns of the header
Width == Max(Len(file.markers), Len(file.axes))

\* position j is the nearest non-blank marker cell before the blank cell i
FillSource(i, j) ==
    /\ j < i
    /\ IsBlank(CellAt(file.markers, i))
    /\ ~IsBlank(CellAt(file.markers, j))
    /\ \A k \in (j + 1)..(i - 1) : IsBlank(CellAt(file.markers, k))

\* the forward-filled marker name at position i: the trimmed nearest
\* non-blank marker cell at or before i, empty when there is none
FilledName(i) ==
    LET before == { j \in 1..i : ~IsBlank(CellAt(file.markers, j)) }
    IN  IF before = {} THEN <<>>
        ELSE Strip(CellAt(file.markers, CHOOSE j \in before : \A k \in before : k <= j))

\* label begins with the marker name
UsesMarker(label, name) ==
    Len(label) >= Len(name) /\ SubSeq(label, 1, Len(name)) = name

FrameTokens == { <<"Frame">>, <<"Sub", " ", "Frame">> }

XYZTokens == { <<"X">>, <<"Y">>, <<"Z">> }

\* the labels are complete
HeaderDone == pc = "read_csv"

SpecLabel(i, ax) ==
    LET axis == Strip(CellAt(file.axes, i))
    IN  IF axis \in FrameTokens THEN ax
        ELSE IF axis \in XYZTokens THEN FilledName(i) \o <<"_">> \o ax
        ELSE IF FilledName(i) # <<>> THEN FilledName(i)
        ELSE ax

\* C6 (as stated): the label sequence has length max(len(marker_row),
\* len(axis_row)) and its i-th label is built, by the three cases, from the
\* forward-filled marker name and the axis token as it stands in the row.
C6_LabelsFromRawAxis ==
    HeaderDone =>
        /\ Len(colnames) = Width
        /\ \A i \in 1..Width : colnames[i] = SpecLabel(i, CellAt(file.axes, i))

\* C6 (amended): the same, with the axis token trimmed of surrounding
\* whitespace wherever it enters a label.
C6_Labels ==
    HeaderDone =>
        /\ Len(colnames) = Width
        /\ \A i \in 1..Width : colnames[i] = SpecLabel(i, Strip(CellAt(file.axes, i)))

\* C6 witness: a ragged header with an X/Y/Z axis cell carrying whitespace
\* and a cell labelled by the fallback case.
C6_Witness ==
    /\ HeaderDone
    /\ Len(file.markers) # Len(file.axes)
    /\ \E i \in 1..Width :
          /\ Strip(CellAt(file.axes, i)) \in XYZTokens
          /\ Strip(CellAt(file.axes, i)) # CellAt(file.axes, i)
    /\ \E i \in 1..Width :
          Strip(CellAt(file.axes, i)) \notin (FrameTokens \cup XYZTokens)

---------------------------------------------------------------------------
(* Properties of the load *)

\* read_vicon_csv has returned a table
Returned == pc = "returned"

\* data columns with at least one cell that is not missing
NonEmptyColumns ==
    { c \in 1..Width : \E r \in 1..Len(file.data) : file.data[r][c] # <<>> }

\* the positions in NonEmptyColumns, ascending
RetainedPositions == SelectSeq([c \in 1..Width |-> c], LAMBDA c : c \in NonEmptyColumns)

\* C7: with a valid five-line header the load does not fail, every value of
\* the returned table is a number or missing (a cell that is not a number
\* became missing), and motion_quantity_point on its columns does not raise.
C7_NonNumericBecomesMissing ==
    /\ pc = "raised" => (file.lines < HeaderLines \/ DuplicateNames(colnames))
    /\ Returned =>
          \A r \in 1..Len(df[1].rows) : \A c \in 1..Len(df[1].cols) :
              df[1].rows[r][c].k \in {"num", "nan"}
    /\ pc # "mqp_raised"

\* C8 (as stated): a file of fewer than five lines ends the call with
\* MalformedHeaderError and no table.
C8_MalformedHeaderError ==
    (file.lines < HeaderLines /\ pc # "open") =>
        (pc = "raised" /\ error = "MalformedHeaderError" /\ df = None)

\* C8 (amended): a file of fewer than five lines ends the call while the
\* header is read, with StopIteration, no labels and no table.
C8_ShortFileStopIteration ==
    (file.lines < HeaderLines /\ pc # "open") =>
        (pc = "raised" /\ error = "StopIteration" /\ df = None /\ colnames = <<>>)

\* C8 witness: a four-line file has ended the call.
C8_Witness ==
    /\ file.lines = HeaderLines - 1
    /\ pc = "raised"
    /\ error = "StopIteration"

\* C9: the returned table has no column missing in every row; its columns
\* are exactly the reconstructed labels of the data columns holding at least
\* one non-missing cell, in their original order, each with its own cells.
C9_MissingColumnDrop ==
    Returned =>
        LET t == df[1]
            pos == RetainedPositions
        IN  /\ \A c \in 1..Len(t.cols) : \E r \in 1..Len(t.rows) : t.rows[r][c] # NaN
            /\ Len(t.cols) = Len(pos)
            /\ \A k \in 1..Len(pos) : t.cols[k] = colnames[pos[k]]
            /\ Len(t.rows) = Len(file.data)
            /\ \A r \in 1..Len(t.rows) :
                  /\ Len(t.rows[r]) = Len(pos)
                  /\ \A k \in 1..Len(pos) :
                        (t.rows[r][k] = NaN) <=> (file.data[r][pos[k]] = <<>>)

\* C9 witness: a returned table that lost an all-missing column and kept a
\* column holding a missing cell.
C9_Witness ==
    /\ Returned
    /\ Len(df[1].cols) < Len(colnames)
    /\ \E c \in 1..Len(df[1].cols) : \E r \in 1..Len(df[1].rows) : df[1].rows[r][c] = NaN

---------------------------------------------------------------------------
(* Properties of motion_quantity_point *)

\* the rows of the table, as points (X, Y, Z)
Points == df[1].rows

\* consecutive row pairs (i, i+1) with all six coordinates present
PairsPresent ==
    { i \in 1..(Len(Points) - 1) :
        \A k \in 1..3 : Points[i][k] # NaN /\ Points[i + 1][k] # NaN }

\* consecutive row pairs (i, i+1) with all six coordinates finite
PairsFinite ==
    { i \in 1..(Len(Points) - 1) :
        \A k \in 1..3 : Points[i][k].k = "num" /\ Points[i + 1][k].k = "num" }

\* Euclidean distance between rows i and i+1 of finite coordinates
PairDistance(i) ==
    LET dx == Points[i + 1][1].v - Points[i][1].v
        dy == Points[i + 1][2].v - Points[i][2].v
        dz == Points[i + 1][3].v - Points[i][3].v
    IN  ISqrt(dx * dx + dy * dy + dz * dz)

\* sum of the distances of the pairs in S
RECURSIVE TotalDistance(_)
TotalDistance(S) ==
    IF S = {} THEN 0
    ELSE LET i == CHOOSE x \in S : TRUE
         IN  PairDistance(i) + TotalDistance(S \ {i})

MqpDone == pc = "mqp_done"

=============================================================================
